---- MODULE Spec2Model ----
(***************************************************************************)
(* State-machine model of the eartrainer package (interval ear trainer):   *)
(* theory.py (interval table, root picking), trainer.py (AdaptiveState,    *)
(* make_question, score_answer), storage.py (load_settings / load_stats)   *)
(* and the session loop of app_streamlit.py.                               *)
(*                                                                         *)
(* Real numbers (accuracies, scores, softmax weights) are carried in fixed *)
(* point with ONE standing for 1.0; every division rounds to nearest.      *)
(***************************************************************************)
EXTENDS Integers, Sequences, FiniteSets, TLC

VARIABLES
    settings,          \* Settings: [intervals, mode, range]
    stats,             \* Stats: [by_interval, confusion]
    window,            \* AdaptiveState.window
    history,           \* AdaptiveState.history: interval name -> sequence of booleans
    recent_misses,     \* AdaptiveState.recent_misses (deque, maxlen 3)
    current_question,  \* st.session_state.current_question (None or a Question)
    last_q,            \* the last_q argument of the make_question call (SpecQuestion)
    nudged,            \* whether that call took the last-resort nudge (trainer.py:97)
    doc,               \* the stored document ~/.eartrainer/data.json
    op,                \* the operation performed last
    args,              \* the arguments of the calls made (and, in SpecAdaptive, their record)
    ret                \* what the function called last returned or raised

vars == << settings, stats, window, history, recent_misses, current_question,
           last_q, nudged, doc, op, args, ret >>

\* Python's None, where a Question is optional
None == [ none |-> TRUE ]
\* the raised field of a call that raised nothing
NoError == "no error"

(***************************************************************************)
(* Bounds of the model.                                                    *)
(***************************************************************************)
\* window of the session's AdaptiveState (the constructor's parameter)
Window == 2
\* largest window of the seeded AdaptiveState of SpecSeeded
MaxWindow == 10
\* largest seen counter of the Stats a state is seeded from in SpecSeeded
MaxStatSeen == 10
\* number of AdaptiveState.update calls in SpecWeights
MaxUpdates == 2
\* number of answers scored in one run of the session
MaxAnswers == 3
\* longest enabled-interval list of SpecOptions (a prefix of the default list)
MaxIntervals == 7
\* the range slider's notes (C3, D3, ...) drawn as the upper end in SpecQuestion
MaxNote == 3
\* longest enabled-interval list of SpecQuestion (a prefix of the default list)
MaxQuestionIntervals == 3
\* number of update and seed_from_stats calls in one run of SpecAdaptive
MaxCalls == 5
\* number of seed_from_stats calls among them
MaxSeeds == 1
\* largest seen and correct counter of the Stats seeded from in SpecAdaptive
MaxSeedSeen == 4

(***************************************************************************)
(* theory.py                                                               *)
(***************************************************************************)
\* the default interval list of Settings, also the key order of SEMITONES
Names == << "m2", "M2", "m3", "M3", "P4", "TT", "P5", "m6", "M6", "m7", "M7", "P8" >>

NameSet == { Names[i] : i \in 1..Len(Names) }

SEMITONES ==
    "m2" :> 1 @@ "M2" :> 2 @@ "m3" :> 3 @@ "M3" :> 4 @@ "P4" :> 5 @@ "TT" :> 6 @@
    "P5" :> 7 @@ "m6" :> 8 @@ "M6" :> 9 @@ "m7" :> 10 @@ "M7" :> 11 @@ "P8" :> 12

\* the notes of the range slider, low to high
Notes == << "C3", "D3", "E3", "F3", "G3", "A3", "B3", "C4", "D4", "E4", "F4", "G4", "A4" >>

NOTE_TO_MIDI ==
    "C3" :> 48 @@ "D3" :> 50 @@ "E3" :> 52 @@ "F3" :> 53 @@ "G3" :> 55 @@
    "A3" :> 57 @@ "B3" :> 59 @@ "C4" :> 60 @@ "D4" :> 62 @@ "E4" :> 64 @@
    "F4" :> 65 @@ "G4" :> 67 @@ "A4" :> 69

Modes == { "ascending", "descending", "harmonic" }

Max(a, b) == IF a >= b THEN a ELSE b
Min(a, b) == IF a <= b THEN a ELSE b
Abs(a) == IF a >= 0 THEN a ELSE 0 - a

settings_range_to_midi(range_notes) ==
    << NOTE_TO_MIDI[range_notes[1]], NOTE_TO_MIDI[range_notes[2]] >>

\* random.randint(mmin, mmax): the set of values it can return
pick_root(mmin, mmax) == mmin..mmax

interval_to_pair_undirected(root_midi, name, direction) ==
    << root_midi, root_midi + SEMITONES[name] >>

interval_to_pair(root_midi, name, direction) ==
    LET d == IF direction = "descending" THEN 0 - SEMITONES[name] ELSE SEMITONES[name]
    IN  << root_midi, root_midi + d >>

\* the [low, high] window of pick_root_in_bounds, before the emptiness test
root_window(min_midi, max_midi, interval_name, mode) ==
    LET d == SEMITONES[interval_name]
        low == IF mode = "descending" THEN min_midi + d ELSE min_midi
        high == IF mode = "descending" THEN max_midi ELSE max_midi - d
    IN  << Max(low, min_midi), Min(high, max_midi) >>

pick_root_in_bounds_unshifted(min_midi, max_midi, interval_name, mode) ==
    pick_root(min_midi, max_midi)

\* the set of roots pick_root_in_bounds can return
pick_root_in_bounds(min_midi, max_midi, interval_name, mode) ==
    LET w == root_window(min_midi, max_midi, interval_name, mode)
    IN  IF w[1] > w[2] THEN pick_root(min_midi, max_midi) ELSE w[1]..w[2]

(***************************************************************************)
(* trainer.py: AdaptiveState                                               *)
(***************************************************************************)
\* 1.0 in fixed point
ONE == 10 ^ 4

\* a / b rounded to nearest, a >= 0, b > 0
DivRound(a, b) == (2 * a + b) \div (2 * b)

DequeAppendDropNewest(q, x, maxlen) == IF Len(q) < maxlen THEN Append(q, x) ELSE q

\* deque(maxlen = n).append(x)
DequeAppend(q, x, maxlen) ==
    IF Len(q) < maxlen THEN Append(q, x)
    ELSE IF maxlen = 0 THEN q
    ELSE Append(Tail(q), x)

RECURSIVE CountTrue(_)
CountTrue(h) == IF h = << >> THEN 0 ELSE (IF Head(h) THEN 1 ELSE 0) + CountTrue(Tail(h))

RECURSIVE SumSeq(_)
SumSeq(s) == IF s = << >> THEN 0 ELSE Head(s) + SumSeq(Tail(s))

RECURSIVE MaxSeq(_)
MaxSeq(s) == IF Len(s) = 1 THEN s[1] ELSE Max(Head(s), MaxSeq(Tail(s)))

InSeq(x, s) == \E i \in 1..Len(s) : s[i] = x

\* AdaptiveState(intervals, window).history
NewHistory(intervals) == [ n \in { intervals[i] : i \in 1..Len(intervals) } |-> << >> ]

RoundHalfUp(a, b) == (2 * a + b) \div (2 * b)

\* Python's round(): a / b to the nearest integer, ties to the even one
RoundHalfEven(a, b) ==
    LET q == a \div b
        r == a % b
    IN  IF 2 * r < b THEN q
        ELSE IF 2 * r > b THEN q + 1
        ELSE IF q % 2 = 0 THEN q ELSE q + 1

\* the history seed_from_stats writes for one IntervalStats
\* (k > n only when correct > seen: the list is then k trues, of which the
\* deque keeps the last w)
SeededHistory(st_i, w) ==
    LET n == Min(w, Max(1, st_i.seen))
        k == IF st_i.seen # 0 THEN RoundHalfEven(st_i.correct * n, st_i.seen) ELSE 0
    IN  [ i \in 1..Min(w, Max(n, k)) |-> i <= k ]

seed_from_stats(h, w, by_interval) ==
    [ n \in DOMAIN h \cup DOMAIN by_interval |->
        IF n \in DOMAIN by_interval THEN SeededHistory(by_interval[n], w) ELSE h[n] ]

\* accuracy(name), in fixed point
accuracy(h, name) ==
    IF name \notin DOMAIN h \/ Len(h[name]) = 0 THEN 0
    ELSE DivRound(CountTrue(h[name]) * ONE, Len(h[name]))

\* update(interval, correct): the new history mapping
update_history(h, w, interval, correct) ==
    LET old == IF interval \in DOMAIN h THEN h[interval] ELSE << >>
    IN  [ n \in DOMAIN h \cup { interval } |->
            IF n = interval THEN DequeAppend(old, correct, w) ELSE h[n] ]

\* capacity of recent_misses
MissesLen == 3

update_misses_always(misses, interval, correct) == DequeAppend(misses, interval, MissesLen)

\* update(interval, correct): the new recent_misses
update_misses(misses, interval, correct) ==
    IF correct THEN misses ELSE DequeAppend(misses, interval, MissesLen)

\* np.exp(-x) for x >= 0 in fixed point: the Taylor series, term by term
RECURSIVE ExpNegTerms(_, _, _, _)
ExpNegTerms(x, k, term, acc) ==
    IF term = 0 THEN acc
    ELSE LET next == DivRound(term * x, ONE * k)
         IN  ExpNegTerms(x, k + 1, next,
                         IF k % 2 = 1 THEN acc - next ELSE acc + next)

ExpNeg(x) == Max(0, ExpNegTerms(x, 1, ONE, ONE))

\* the recent-mistake boost 0.15 and the default min_floor 0.05
Boost == (15 * ONE) \div 100
MinFloor == (5 * ONE) \div 100

ScoresOfAccuracy(h, misses, intervals) ==
    [ i \in 1..Len(intervals) |->
        Max(0, accuracy(h, intervals[i])
               + (IF InSeq(intervals[i], misses) THEN Boost ELSE 0)) ]

\* the scores list of weights()
Scores(h, misses, intervals) ==
    [ i \in 1..Len(intervals) |->
        Max(0, ONE - accuracy(h, intervals[i])
               + (IF InSeq(intervals[i], misses) THEN Boost ELSE 0)) ]

Normalize(v) == LET s == SumSeq(v) IN [ i \in 1..Len(v) |-> DivRound(v[i] * ONE, s) ]

\* weights(intervals, min_floor): [raised, value]. For an empty list np.exp is
\* given the scalar 0.0, exps / np.sum(exps) is a numpy scalar, .tolist() makes
\* it a Python float, and len() of a float raises TypeError.
weights(h, misses, intervals, min_floor) ==
    LET scores == Scores(h, misses, intervals)
        scalar == scores = << >>
        exps == IF scalar THEN << ONE >>
                ELSE [ i \in 1..Len(scores) |-> ExpNeg(MaxSeq(scores) - scores[i]) ]
        w == IF SumSeq(exps) > 0 THEN Normalize(exps)
             ELSE [ i \in 1..Len(intervals) |-> DivRound(ONE, Max(1, Len(intervals))) ]
        floored == [ i \in 1..Len(w) |-> Max(w[i], min_floor) ]
    IN  IF scalar THEN [ raised |-> "TypeError", value |-> << >> ]
        ELSE IF Len(w) > 0 THEN [ raised |-> NoError, value |-> Normalize(floored) ]
        ELSE [ raised |-> NoError, value |-> w ]

(***************************************************************************)
(* trainer.py: choose_interval, distractors, make_question, score_answer   *)
(***************************************************************************)
SeqToSet(s) == { s[i] : i \in 1..Len(s) }

\* the injective maps 1..k -> 1..n: the ways to draw k of n without replacement
Injections(k, n) ==
    { f \in [1..k -> 1..n] : \A i, j \in 1..k : i # j => f[i] # f[j] }

\* list.sort(key): stable, so equal keys keep their order in s
StableSort(s, key(_)) ==
    LET rank(i) == Cardinality({ j \in 1..Len(s) :
                       key(s[j]) < key(s[i]) \/ (key(s[j]) = key(s[i]) /\ j < i) }) + 1
    IN  [ r \in 1..Len(s) |-> s[CHOOSE i \in 1..Len(s) : rank(i) = r] ]

SampleWithReplacement(population, k) ==
    { [ i \in 1..k |-> population[f[i]] ] : f \in [1..k -> 1..Len(population)] }

\* random.sample(population, k): every ordered draw without replacement
Sample(population, k) ==
    { [ i \in 1..k |-> population[f[i]] ] : f \in Injections(k, Len(population)) }

\* random.shuffle(x): every permutation
Shuffle(x) == Sample(x, Len(x))

\* np.random.choice(len(intervals), p = weights): an index of positive probability
choose_interval(intervals, w) == { intervals[i] : i \in { j \in 1..Len(intervals) : w[j] > 0 } }

\* the number of distractors make_question asks for
DistractorK == 3

\* distractors(correct, pool, k): the set of lists it can return
distractors(correct, pool, k) ==
    LET names0 == SelectSeq(pool, LAMBDA n : n # correct)
        dist(n) == Abs(SEMITONES[n] - SEMITONES[correct])
        names == StableSort(names0, dist)
        candidates == SubSeq(names, 1, Max(1, Min(k + 2, Len(names))))
        far == names[Len(names)]
        varied == IF InSeq(far, candidates) THEN candidates
                  ELSE [ candidates EXCEPT ![Len(candidates)] = far ]
    IN  IF names0 = << >> THEN { << >> }
        ELSE Sample(candidates, Min(k, Len(candidates)))
             \cup Sample(varied, Min(k, Len(varied)))

\* the number of passes of the anti-repeat loop
RepeatTries == 25

\* the test of lines 89 and 97: the candidate repeats the last question
SameAsLast(lq, name, root, mode) ==
    lq # None /\ name = lq.interval /\ root = lq.root_midi /\ mode = lq.mode

\* one pass of the loop over the set of candidates <<name, root>>: a candidate
\* that differs breaks out; one that repeats has its root or its name redrawn
LoopPass(S, s, w, lq) ==
    LET mm == settings_range_to_midi(s.range)
    IN  { p \in S : ~SameAsLast(lq, p[1], p[2], s.mode) }
        \cup UNION { { << p[1], r >> : r \in pick_root_in_bounds(mm[1], mm[2], p[1], s.mode) }
                     \cup { << n, p[2] >> : n \in choose_interval(s.intervals, w) }
                   : p \in { c \in S : SameAsLast(lq, c[1], c[2], s.mode) } }

RECURSIVE AntiRepeat(_, _, _, _, _)
AntiRepeat(i, S, s, w, lq) ==
    IF i = 0 THEN S ELSE AntiRepeat(i - 1, LoopPass(S, s, w, lq), s, w, lq)

NoNudge(root, min_midi, max_midi) == root

\* lines 98-104: root + 1 if in range, else root - 1 if in range, else root
Nudge(root, min_midi, max_midi) ==
    IF root + 1 <= max_midi THEN root + 1
    ELSE IF root - 1 >= min_midi THEN root - 1
    ELSE root

Question(name, opts, root, pair, mode) ==
    [ interval |-> name, options |-> opts, answer |-> name, root_midi |-> root,
      pair_midi |-> pair, mode |-> mode ]

\* make_question(settings, state, last_q): the set of outcomes
\* [raised, q, nudged]; it raises what weights raises
make_question(s, h, misses, lq) ==
    LET wr == weights(h, misses, s.intervals, MinFloor)
        w == wr.value
        mm == settings_range_to_midi(s.range)
        first == { << n, r >> : n \in choose_interval(s.intervals, w), r \in mm[1]..mm[2] }
        start == { p \in first : p[2] \in pick_root_in_bounds(mm[1], mm[2], p[1], s.mode) }
        after == AntiRepeat(RepeatTries, start, s, w, lq)
        Final(p) == LET same == SameAsLast(lq, p[1], p[2], s.mode)
                        root == IF same THEN Nudge(p[2], mm[1], mm[2]) ELSE p[2]
                    IN  { [ raised |-> NoError, nudged |-> same,
                            q |-> Question(p[1], opts, root,
                                           interval_to_pair(root, p[1], s.mode), s.mode) ]
                          : opts \in UNION { Shuffle(<< p[1] >> \o d)
                                             : d \in distractors(p[1], s.intervals, DistractorK) } }
    IN  IF wr.raised # NoError THEN { [ raised |-> wr.raised, nudged |-> FALSE, q |-> None ] }
        ELSE UNION { Final(p) : p \in after }

IntervalStats == [ seen |-> 0, correct |-> 0 ]

score_stats_correct_only(q, chosen, st) ==
    LET i == q.interval
        old == IF i \in DOMAIN st.by_interval THEN st.by_interval[i] ELSE IntervalStats
    IN  [ by_interval |-> [ n \in DOMAIN st.by_interval \cup { i } |->
                              IF n = i THEN [ seen |-> old.seen, correct |-> old.correct + 1 ]
                              ELSE st.by_interval[n] ],
          confusion |-> st.confusion ]

\* score_answer, lines 121-129: the new Stats
score_stats(q, chosen, st) ==
    LET is_correct == chosen = q.answer
        i == q.interval
        old == IF i \in DOMAIN st.by_interval THEN st.by_interval[i] ELSE IntervalStats
        new == [ seen |-> old.seen + 1,
                 correct |-> IF is_correct THEN old.correct + 1 ELSE old.correct ]
        conf == IF i \in DOMAIN st.confusion THEN st.confusion[i] ELSE << >>
        cnt == IF chosen \in DOMAIN conf THEN conf[chosen] ELSE 0
        conf2 == [ c \in DOMAIN conf \cup { chosen } |->
                      IF c = chosen THEN cnt + 1 ELSE conf[c] ]
    IN  [ by_interval |-> [ n \in DOMAIN st.by_interval \cup { i } |->
                              IF n = i THEN new ELSE st.by_interval[n] ],
          confusion |-> IF is_correct THEN st.confusion
                        ELSE [ n \in DOMAIN st.confusion \cup { i } |->
                                 IF n = i THEN conf2 ELSE st.confusion[n] ] ]

AnswerRecord(q, chosen) == [ interval |-> q.interval, chosen |-> chosen, correct |-> chosen = q.answer ]

(***************************************************************************)
(* models.py and storage.py: the stored document and its validation        *)
(***************************************************************************)
\* JSON values, tagged by kind
Absent == [ k |-> "absent" ]
JStr(x) == [ k |-> "str", v |-> x ]
JInt(x) == [ k |-> "int", v |-> x ]
JNum(x) == [ k |-> "num", v |-> x ]
JList(x) == [ k |-> "list", v |-> x ]
JObj(x) == [ k |-> "obj", v |-> x ]

Waveforms == { "sine", "triangle", "saw", "piano" }

\* Settings(): the field defaults
DefaultSettings ==
    [ intervals |-> Names, mode |-> "ascending", range |-> << "C3", "A4" >>,
      waveform |-> "piano", session_len |-> 20, volume |-> (9 * ONE) \div 10 ]

\* Stats(): the field defaults
DefaultStats == [ by_interval |-> << >>, confusion |-> << >> ]

SettingsFields == { "intervals", "mode", "range", "waveform", "session_len", "volume" }

\* pydantic's validation of one Settings field
FieldValid(f, j) ==
    CASE f = "intervals" -> j.k = "list"
      [] f = "mode" -> j.k = "str" /\ j.v \in Modes
      [] f = "range" -> j.k = "list" /\ Len(j.v) = 2
      [] f = "waveform" -> j.k = "str" /\ j.v \in Waveforms
      [] f = "session_len" -> j.k = "int" /\ j.v >= 1 /\ j.v <= 200
      [] f = "volume" -> j.k = "num" /\ j.v >= 0 /\ j.v <= ONE

\* Settings.model_validate(obj): [raised, value]
validate_settings(obj) ==
    IF \E f \in SettingsFields : obj[f].k # "absent" /\ ~FieldValid(f, obj[f])
    THEN [ raised |-> "ValidationError", value |-> None ]
    ELSE [ raised |-> NoError,
           value |-> [ f \in SettingsFields |->
                         IF obj[f].k = "absent" THEN DefaultSettings[f] ELSE obj[f].v ] ]

\* Stats.model_validate(obj): [raised, value]
validate_stats(obj) ==
    IF \E f \in { "by_interval", "confusion" } : obj[f].k \notin { "absent", "obj" }
    THEN [ raised |-> "ValidationError", value |-> None ]
    ELSE [ raised |-> NoError,
           value |-> [ f \in { "by_interval", "confusion" } |->
                         IF obj[f].k = "absent" THEN DefaultStats[f] ELSE obj[f].v ] ]

\* Settings.model_dump() and Stats.model_dump(), as JSON
dump_settings(s) ==
    JObj([ intervals |-> JList(s.intervals), mode |-> JStr(s.mode), range |-> JList(s.range),
           waveform |-> JStr(s.waveform), session_len |-> JInt(s.session_len),
           volume |-> JNum(s.volume) ])

dump_stats(st) ==
    JObj([ by_interval |-> JObj(st.by_interval), confusion |-> JObj(st.confusion) ])

EmptySettingsObj == [ f \in SettingsFields |-> Absent ]
EmptyStatsObj == [ by_interval |-> Absent, confusion |-> Absent ]

\* _load_raw(): the top-level object, {} for a missing or unreadable file or a
\* top level that is no object
load_raw(d) ==
    IF d.file = "object" THEN [ settings |-> d.settings, stats |-> d.stats ]
    ELSE [ settings |-> Absent, stats |-> Absent ]

load_settings(d) ==
    LET obj == load_raw(d).settings
    IN  IF obj.k = "absent" THEN validate_settings(EmptySettingsObj)
        ELSE IF obj.k = "obj" THEN validate_settings(obj.v)
        ELSE [ raised |-> NoError, value |-> DefaultSettings ]

load_stats(d) ==
    LET obj == load_raw(d).stats
    IN  IF obj.k = "absent" THEN validate_stats(EmptyStatsObj)
        ELSE IF obj.k = "obj" THEN validate_stats(obj.v)
        ELSE [ raised |-> NoError, value |-> DefaultStats ]

\* _add_defaults_if_missing(raw), then _save_raw(raw)
save_raw(raw) ==
    [ file |-> "object",
      settings |-> IF raw.settings.k = "obj" THEN raw.settings ELSE dump_settings(DefaultSettings),
      stats |-> IF raw.stats.k = "obj" THEN raw.stats ELSE dump_stats(DefaultStats) ]

save_settings(d, s) == save_raw([ load_raw(d) EXCEPT !.settings = dump_settings(s) ])

save_stats(d, st) == save_raw([ load_raw(d) EXCEPT !.stats = dump_stats(st) ])

NoDocument == [ file |-> "missing", settings |-> Absent, stats |-> Absent ]

(***************************************************************************)
(* Calls of the pure functions.  op names the function called last, args   *)
(* its arguments and ret its result.                                       *)
(***************************************************************************)
\* values of the variables a specification does not use
IdleSession ==
    /\ settings = DefaultSettings /\ stats = DefaultStats
    /\ current_question = None /\ last_q = None /\ nudged = FALSE
    /\ doc = NoDocument

IdleAdaptive == window = Window /\ history = << >> /\ recent_misses = << >>

\* ---- theory.py: pick_root_in_bounds on every range of the note table ----
TheoryArgs ==
    { [ min_midi |-> NOTE_TO_MIDI[Notes[i]], max_midi |-> NOTE_TO_MIDI[Notes[j]],
        interval |-> n, mode |-> m ]
      : i \in 1..Len(Notes), j \in 1..Len(Notes), n \in NameSet, m \in Modes }

InitTheory ==
    /\ IdleSession /\ IdleAdaptive
    /\ op = "init" /\ ret = None
    /\ args \in { a \in TheoryArgs : a.min_midi <= a.max_midi }

PickRootInBounds ==
    /\ op = "init"
    /\ \E r \in pick_root_in_bounds(args.min_midi, args.max_midi, args.interval, args.mode) :
           ret' = [ raised |-> NoError, value |-> r ]
    /\ op' = "pick_root_in_bounds"
    /\ UNCHANGED << settings, stats, window, history, recent_misses, current_question,
                    last_q, nudged, doc, args >>

NextTheory == PickRootInBounds

SpecTheory == InitTheory /\ [][NextTheory]_vars

\* ---- trainer.py: AdaptiveState.update and AdaptiveState.weights ----
InitWeights ==
    /\ IdleSession
    /\ window = Window /\ history = NewHistory(settings.intervals) /\ recent_misses = << >>
    /\ op = "init" /\ ret = None
    /\ args = [ updates |-> 0, intervals |-> << >> ]

Update(interval, correct) ==
    /\ args.updates < MaxUpdates
    /\ history' = update_history(history, window, interval, correct)
    /\ recent_misses' = update_misses(recent_misses, interval, correct)
    /\ args' = [ args EXCEPT !.updates = @ + 1 ]
    /\ op' = "update" /\ ret' = None
    /\ UNCHANGED << settings, stats, window, current_question, last_q, nudged, doc >>

CallWeights(intervals) ==
    /\ ret' = weights(history, recent_misses, intervals, MinFloor)
    /\ args' = [ args EXCEPT !.intervals = intervals ]
    /\ op' = "weights"
    /\ UNCHANGED << settings, stats, window, history, recent_misses, current_question,
                    last_q, nudged, doc >>

NextWeights ==
    \/ \E i \in NameSet, c \in BOOLEAN : Update(i, c)
    \/ \E n \in 0..Len(Names) : CallWeights(SubSeq(Names, 1, n))

SpecWeights == InitWeights /\ [][NextWeights]_vars

\* ---- trainer.py: seed_from_stats, then weights of the two enabled intervals ----
PairLists == { << "m2", "P5" >>, << "P5", "m2" >> }

IntervalStatsSet == { [ seen |-> sn, correct |-> c ] : sn \in 0..MaxStatSeen, c \in 0..MaxStatSeen }

InitSeeded ==
    /\ \E l \in PairLists :
          /\ settings = [ DefaultSettings EXCEPT !.intervals = l ]
          /\ history = NewHistory(l)
          /\ args = [ updates |-> 0, intervals |-> l ]
    /\ stats = DefaultStats /\ current_question = None /\ last_q = None
    /\ nudged = FALSE /\ doc = NoDocument
    /\ window \in { Window, MaxWindow } /\ recent_misses = << >>
    /\ op = "init" /\ ret = None

SeedFromStats(by_interval) ==
    /\ op = "init"
    /\ stats' = [ by_interval |-> by_interval, confusion |-> << >> ]
    /\ history' = seed_from_stats(history, window, by_interval)
    /\ op' = "seed"
    /\ UNCHANGED << settings, window, recent_misses, current_question, last_q, nudged,
                    doc, args, ret >>

NextSeeded ==
    \/ \E S \in SUBSET SeqToSet(settings.intervals) :
          \E by \in [ S -> { x \in IntervalStatsSet : x.correct <= x.seen } ] : SeedFromStats(by)
    \/ CallWeights(settings.intervals)

SpecSeeded == InitSeeded /\ [][NextSeeded]_vars

\* ---- trainer.py: AdaptiveState under sequences of seed_from_stats and update ----
\* args keeps what was recorded: log[n], the outcomes recorded for n since its
\* history was last seeded (starting with the seeded ones), and missed, the
\* names of the incorrect answers, both in arrival order and never trimmed
AdaptiveLists == { << "m2" >>, << "m2", "M2" >> }

\* the names updated and seeded: one with a history entry, one without
AdaptiveNames == { "m2", "m3" }

SeedStats == { [ seen |-> sn, correct |-> c ] : sn \in 0..MaxSeedSeen, c \in 0..MaxSeedSeen }

\* stats.by_interval of the Stats handed to seed_from_stats
SeedMaps == { [ n \in S |-> x ] : S \in SUBSET AdaptiveNames, x \in SeedStats }

InitAdaptive ==
    /\ \E l \in AdaptiveLists :
          /\ settings = [ DefaultSettings EXCEPT !.intervals = l ]
          /\ history = NewHistory(l)
    /\ stats = DefaultStats /\ current_question = None /\ last_q = None
    /\ nudged = FALSE /\ doc = NoDocument
    /\ window = Window /\ recent_misses = << >>
    /\ args = [ log |-> history, missed |-> << >>, calls |-> 0, seeds |-> 0,
                by_interval |-> << >>, interval |-> "m2", correct |-> TRUE ]
    /\ op = "init" /\ ret = None

\* state.update(interval, correct)
StateUpdate(interval, correct) ==
    /\ args.calls < MaxCalls
    /\ history' = update_history(history, window, interval, correct)
    /\ recent_misses' = update_misses(recent_misses, interval, correct)
    /\ args' = [ args EXCEPT
                   !.log = [ n \in DOMAIN @ \cup { interval } |->
                               IF n = interval
                               THEN Append(IF n \in DOMAIN @ THEN @[n] ELSE << >>, correct)
                               ELSE @[n] ],
                   !.missed = IF correct THEN @ ELSE Append(@, interval),
                   !.calls = @ + 1, !.by_interval = << >>, !.interval = interval,
                   !.correct = correct ]
    /\ op' = "update"
    /\ UNCHANGED << settings, stats, window, current_question, last_q, nudged, doc, ret >>

\* state.seed_from_stats(Stats(by_interval = by_interval))
StateSeed(by_interval) ==
    /\ args.calls < MaxCalls /\ args.seeds < MaxSeeds
    /\ history' = seed_from_stats(history, window, by_interval)
    /\ args' = [ args EXCEPT
                   !.log = [ n \in DOMAIN @ \cup DOMAIN by_interval |->
                               IF n \in DOMAIN by_interval THEN history'[n] ELSE @[n] ],
                   !.calls = @ + 1, !.seeds = @ + 1, !.by_interval = by_interval,
                   !.interval = "m2", !.correct = TRUE ]
    /\ op' = "seed"
    /\ UNCHANGED << settings, stats, window, recent_misses, current_question, last_q,
                    nudged, doc, ret >>

NextAdaptive ==
    \/ \E i \in AdaptiveNames, c \in BOOLEAN : StateUpdate(i, c)
    \/ \E by \in SeedMaps : StateSeed(by)

SpecAdaptive == InitAdaptive /\ [][NextAdaptive]_vars

\* ---- storage.py: load_settings and load_stats on stored documents ----
StoredSettingsObjs ==
    [ intervals : { Absent, JList(<< "m2", "P5" >>), JStr("m2") },
      mode : { Absent, JStr("descending"), JStr("sideways") },
      range : { Absent, JList(<< "C3", "C4" >>) },
      waveform : { Absent, JStr("sine") },
      session_len : { Absent, JInt(50), JInt(0), JInt(201), JStr("x") },
      volume : { Absent, JNum(ONE \div 2), JNum(2 * ONE) } ]

StoredStatsObjs ==
    [ by_interval : { Absent, JObj("m2" :> [ seen |-> 3, correct |-> 2 ]), JStr("x") },
      confusion : { Absent, JObj("m2" :> ("M2" :> 1)), JList(<< >>) } ]

StoredDocs ==
    { [ file |-> f, settings |-> Absent, stats |-> Absent ]
      : f \in { "missing", "unreadable", "nonobject" } }
    \cup { [ file |-> "object", settings |-> st, stats |-> ss ]
           : st \in { Absent, JStr("x"), JList(<< >>) } \cup { JObj(o) : o \in StoredSettingsObjs },
             ss \in { Absent, JStr("x") } \cup { JObj(o) : o \in StoredStatsObjs } }

InitStorage ==
    /\ settings = DefaultSettings /\ stats = DefaultStats
    /\ current_question = None /\ last_q = None /\ nudged = FALSE
    /\ IdleAdaptive
    /\ doc \in StoredDocs
    /\ op = "init" /\ args = None /\ ret = None

LoadSettings ==
    /\ ret' = load_settings(doc)
    /\ op' = "load_settings"
    /\ UNCHANGED << settings, stats, window, history, recent_misses, current_question,
                    last_q, nudged, doc, args >>

LoadStats ==
    /\ ret' = load_stats(doc)
    /\ op' = "load_stats"
    /\ UNCHANGED << settings, stats, window, history, recent_misses, current_question,
                    last_q, nudged, doc, args >>

NextStorage == LoadSettings \/ LoadStats

SpecStorage == InitStorage /\ [][NextStorage]_vars

\* ---- trainer.py: make_question on settings, fresh state and previous question ----
\* the enabled lists (prefixes of the default one), modes and ranges drawn
SettingsFamily(max_intervals, max_note) ==
    { [ DefaultSettings EXCEPT !.intervals = SubSeq(Names, 1, n), !.mode = m,
                               !.range = << Notes[1], Notes[j] >>, !.waveform = "sine" ]
      : n \in 1..max_intervals, m \in Modes, j \in 1..max_note }

\* the settings of the session and of SpecOptions: one or two enabled
\* intervals, or a longer list, on the ranges C3-C3 and C3-D3
NarrowSettings(max_intervals) == SettingsFamily(max_intervals, Len(<< "C3", "D3" >>))

SessionSettings == NarrowSettings(Len(<< "m2", "M2" >>))

\* questions an earlier make_question returned when "m2" alone was enabled
PreviousQuestions(max_note) ==
    { Question("m2", << "m2" >>, r, interval_to_pair(r, "m2", m), m)
      : r \in NOTE_TO_MIDI[Notes[1]]..NOTE_TO_MIDI[Notes[max_note]], m \in Modes }

\* q = make_question(settings, state, last_q), the previous question being
\* current_question
MakeQuestion ==
    /\ \E o \in make_question(settings, history, recent_misses, current_question) :
          /\ o.raised = NoError
          /\ current_question' = o.q
          /\ nudged' = o.nudged
    /\ last_q' = current_question
    /\ op' = "next" /\ ret' = None
    /\ UNCHANGED << settings, stats, window, history, recent_misses, doc, args >>

InitQuestion ==
    /\ settings \in SettingsFamily(MaxQuestionIntervals, MaxNote)
    /\ stats = DefaultStats /\ doc = NoDocument
    /\ window = Window /\ history = NewHistory(settings.intervals) /\ recent_misses = << >>
    /\ current_question \in { None } \cup PreviousQuestions(MaxNote)
    /\ last_q = None /\ nudged = FALSE
    /\ op = "init" /\ args = None /\ ret = None

NextQuestion == op = "init" /\ MakeQuestion

SpecQuestion == InitQuestion /\ [][NextQuestion]_vars

\* ---- trainer.py: the options of make_question on long interval lists ----
InitOptions ==
    /\ settings \in NarrowSettings(MaxIntervals)
    /\ stats = DefaultStats /\ doc = NoDocument
    /\ window = Window /\ history = NewHistory(settings.intervals) /\ recent_misses = << >>
    /\ current_question \in { None } \cup PreviousQuestions(1)
    /\ last_q = None /\ nudged = FALSE
    /\ op = "init" /\ args = None /\ ret = None

NextOptions == op = "init" /\ MakeQuestion

SpecOptions == InitOptions /\ [][NextOptions]_vars

(***************************************************************************)
(* app_streamlit.py: the session                                           *)
(***************************************************************************)
\* score_answer(q, chosen, stats, state): what it leaves and returns
score_answer(q, chosen, st, h, w, misses) ==
    [ stats |-> score_stats(q, chosen, st),
      history |-> update_history(h, w, q.interval, chosen = q.answer),
      recent_misses |-> update_misses(misses, q.interval, chosen = q.answer),
      record |-> AnswerRecord(q, chosen) ]

RECURSIVE SumSeen(_, _)
SumSeen(by_interval, S) ==
    IF S = { } THEN 0
    ELSE LET n == CHOOSE x \in S : TRUE
         IN  by_interval[n].seen + SumSeen(by_interval, S \ { n })

TotalSeen(st) == SumSeen(st.by_interval, DOMAIN st.by_interval)

\* Stats left on disk by an earlier run in which each of these was answered once
StoredStats ==
    { [ by_interval |-> [ n \in S |-> [ seen |-> 1, correct |-> 1 ] ], confusion |-> << >> ]
      : S \in { { }, { "m2", "m3" } } }

SessionDocs ==
    { NoDocument }
    \cup { [ file |-> "object", settings |-> dump_settings(s), stats |-> dump_stats(st) ]
           : s \in SessionSettings, st \in StoredStats }

\* get_state() on the first run of the script
Init ==
    /\ doc \in SessionDocs
    /\ settings = load_settings(doc).value
    /\ stats = load_stats(doc).value
    /\ window = Window
    /\ history = seed_from_stats(NewHistory(settings.intervals), window, stats.by_interval)
    /\ recent_misses = << >>
    /\ current_question = None /\ last_q = None /\ nudged = FALSE
    /\ op = "init" /\ args = None /\ ret = None

\* the waveform selectbox of sidebar_controls: list.index raises ValueError on
\* any other waveform, and the script run ends before a button is read
UIWaveforms == { "sine", "triangle", "saw" }
SidebarRuns == settings.waveform \in UIWaveforms

\* sidebar_controls: the widgets give new settings; an empty multiselect keeps
\* the enabled list
ChangeSettings(ui) ==
    LET new_s == [ ui EXCEPT !.intervals = IF ui.intervals = << >> THEN settings.intervals
                                           ELSE ui.intervals ]
    IN  /\ SidebarRuns
        /\ new_s # settings
        /\ settings' = new_s
        /\ doc' = save_settings(doc, new_s)
        /\ op' = "settings" /\ ret' = None
        /\ UNCHANGED << stats, window, history, recent_misses, current_question, last_q,
                        nudged, args >>

history_setdefault(h, intervals) ==
    [ n \in DOMAIN h \cup SeqToSet(intervals) |-> IF n \in DOMAIN h THEN h[n] ELSE << >> ]

\* state.history once weights(intervals) has called accuracy(name) for every
\* name: self.history.get(name) reads the dict and adds no entry to it
history_after_weights(h, intervals) == h

\* the Next button: state.current_question = make_question(state.settings,
\* state.adaptive, state.current_question)
NextButton ==
    /\ SidebarRuns
    /\ \E o \in make_question(settings, history, recent_misses, current_question) :
          /\ o.raised = NoError
          /\ current_question' = o.q
    /\ history' = history_after_weights(history, settings.intervals)
    /\ op' = "next" /\ ret' = None
    /\ UNCHANGED << settings, stats, window, recent_misses, last_q, nudged, doc, args >>

\* an option button: score_answer, then save_stats
Answer(clicked) ==
    /\ SidebarRuns
    /\ current_question # None
    /\ clicked \in SeqToSet(current_question.options)
    /\ TotalSeen(stats) < MaxAnswers
    /\ LET r == score_answer(current_question, clicked, stats, history, window, recent_misses)
       IN  /\ stats' = r.stats
           /\ history' = r.history
           /\ recent_misses' = r.recent_misses
           /\ ret' = r.record
           /\ doc' = save_stats(doc, r.stats)
    /\ op' = "answer"
    /\ UNCHANGED << settings, window, current_question, last_q, nudged, args >>

\* the End Session button
EndSession ==
    /\ SidebarRuns
    /\ current_question' = None
    /\ op' = "end" /\ ret' = None
    /\ UNCHANGED << settings, stats, window, history, recent_misses, last_q, nudged, doc, args >>

UISettings ==
    SessionSettings \cup { [ x EXCEPT !.intervals = << >> ] : x \in SessionSettings }

Next ==
    \/ NextButton
    \/ \E clicked \in NameSet : Answer(clicked)
    \/ EndSession
    \/ \E ui \in UISettings : ChangeSettings(ui)

Spec == Init /\ [][Next]_vars

(***************************************************************************)
(* Properties                                                              *)
(***************************************************************************)
Distinct(s) == \A i, j \in 1..Len(s) : i # j => s[i] # s[j]

OptionsWellFormed(q, n) ==
    /\ Len(q.options) = n
    /\ Distinct(q.options)
    /\ Cardinality({ i \in 1..Len(q.options) : q.options[i] = q.answer }) = 1
    /\ q.interval = q.answer
    /\ InSeq(q.interval, settings.intervals)

\* C1 as stated: every question make_question returns has exactly 4 pairwise
\* distinct options holding the answer exactly once, and its interval, equal
\* to its answer, is an enabled interval.
C1_FourOptions ==
    op = "next" => OptionsWellFormed(current_question, DistractorK + 1)

\* C1 amended: every question make_question returns has exactly
\* min(4, number of enabled intervals) pairwise distinct options holding the
\* answer exactly once, and its interval, equal to its answer, is enabled.
C1_OptionsUpToFour ==
    op = "next" =>
        OptionsWellFormed(current_question,
                          Min(DistractorK + 1, Len(settings.intervals)))

\* a question on the longest list, after a previous one, whose options hold
\* the farthest interval in place of the fifth nearest
C1_Witness ==
    /\ op = "next" /\ last_q # None
    /\ Len(settings.intervals) = MaxIntervals
    /\ current_question.answer = "m2"
    /\ Len(current_question.options) = DistractorK + 1
    /\ InSeq(Names[MaxIntervals], current_question.options)

\* C2: a scored answer adds 1 to seen of the question's interval, 1 to its
\* correct iff the choice is the answer, and appends the outcome to its
\* history; a correct answer leaves confusion and recent_misses as they were;
\* a wrong one adds 1 to confusion[interval][chosen] (from 0 if absent) and
\* pushes the interval onto recent_misses; every other counter, confusion
\* count and history stays.
C2_Effect ==
    LET q == current_question
        i == q.interval
        chosen == ret'.chosen
        ok == chosen = q.answer
        old == IF i \in DOMAIN stats.by_interval THEN stats.by_interval[i]
               ELSE [ seen |-> 0, correct |-> 0 ]
        oldh == IF i \in DOMAIN history THEN history[i] ELSE << >>
        newh == history'[i]
        Conf(st, t, c) == IF t \in DOMAIN st.confusion /\ c \in DOMAIN st.confusion[t]
                          THEN st.confusion[t][c] ELSE 0
        newm == recent_misses'
    IN  /\ DOMAIN stats'.by_interval = DOMAIN stats.by_interval \cup { i }
        /\ stats'.by_interval[i].seen = old.seen + 1
        /\ stats'.by_interval[i].correct = old.correct + (IF ok THEN 1 ELSE 0)
        /\ \A n \in DOMAIN stats.by_interval \ { i } :
              stats'.by_interval[n] = stats.by_interval[n]
        /\ DOMAIN history' = DOMAIN history \cup { i }
        /\ \A n \in DOMAIN history \ { i } : history'[n] = history[n]
        /\ Len(newh) >= 1 /\ newh[Len(newh)] = ok
        /\ SubSeq(newh, 1, Len(newh) - 1) = (IF Len(oldh) < window THEN oldh ELSE Tail(oldh))
        /\ ok => stats'.confusion = stats.confusion /\ recent_misses' = recent_misses
        /\ ~ok => /\ Conf(stats', i, chosen) = Conf(stats, i, chosen) + 1
                  /\ \A t, c \in NameSet :
                        << t, c >> # << i, chosen >> => Conf(stats', t, c) = Conf(stats, t, c)
                  /\ Len(newm) >= 1 /\ newm[Len(newm)] = i
                  /\ SubSeq(newm, 1, Len(newm) - 1) =
                        (IF Len(recent_misses) < MissesLen THEN recent_misses
                         ELSE Tail(recent_misses))

C2_ScoreAnswerEffect == [][op' = "answer" => C2_Effect]_vars

\* a wrong answer was scored: its confusion count and miss are recorded
C2_Witness ==
    /\ op = "answer" /\ ~ret.correct
    /\ stats.confusion[ret.interval][ret.chosen] >= 1
    /\ recent_misses # << >>
    /\ Len(history[ret.interval]) = window

\* C3: weights of a non-empty list has the length of the list, sums to 1.0
\* (within the rounding of the entries) and has every entry >= min_floor.
C3_WeightsSumAndFloor ==
    op = "weights" /\ args.intervals # << >> =>
        /\ ret.raised = NoError
        /\ Len(ret.value) = Len(args.intervals)
        /\ Abs(SumSeq(ret.value) - ONE) <= Len(ret.value)
        /\ \A i \in 1..Len(ret.value) : ret.value[i] >= MinFloor

\* C4: weights of the empty list returns the empty list and raises nothing.
C4_EmptyInEmptyOut ==
    op = "weights" /\ args.intervals = << >> =>
        ret.raised = NoError /\ ret.value = << >>

\* accuracy(a) < accuracy(b), compared exactly (an empty history counts 0.0)
LessAccurate(h, a, b) ==
    CountTrue(h[a]) * Max(1, Len(h[b])) < CountTrue(h[b]) * Max(1, Len(h[a]))

\* C5: with no recent misses, weights of a two-interval list gives the
\* interval of strictly lower accuracy the strictly larger weight.
C5_WeakIntervalWeighsMore ==
    op = "weights" /\ recent_misses = << >> =>
        LET a == args.intervals[1]
            b == args.intervals[2]
        IN  /\ LessAccurate(history, a, b) => ret.value[1] > ret.value[2]
            /\ LessAccurate(history, b, a) => ret.value[2] > ret.value[1]

\* the test's case: m2 seen 10, correct 2 and P5 seen 10, correct 9, seeded
\* into a window that holds all ten
C5_Witness ==
    /\ op = "weights" /\ recent_misses = << >>
    /\ args.intervals = << "m2", "P5" >>
    /\ stats.by_interval = ("m2" :> [ seen |-> 10, correct |-> 2 ]
                            @@ "P5" :> [ seen |-> 10, correct |-> 9 ])
    /\ Len(history["m2"]) = 10
    /\ accuracy(history, "m2") = ONE \div 5
    /\ accuracy(history, "P5") = (9 * ONE) \div 10
    /\ ret.value[1] > ret.value[2]

\* C6: in every question returned, pair_midi[0] is root_midi and pair_midi[1]
\* is root_midi - SEMITONES[answer] when descending, root_midi +
\* SEMITONES[answer] otherwise.
C6_PairRealisesAnswer ==
    op = "next" =>
        LET q == current_question
        IN  /\ q.pair_midi[1] = q.root_midi
            /\ q.pair_midi[2] = IF q.mode = "descending"
                                THEN q.root_midi - SEMITONES[q.answer]
                                ELSE q.root_midi + SEMITONES[q.answer]

\* a descending question whose root was nudged
C6_Witness ==
    /\ op = "next" /\ nudged
    /\ current_question.mode = "descending"
    /\ current_question.root_midi # last_q.root_midi
    /\ current_question.pair_midi[2] < current_question.root_midi

Triple(q) == << q.interval, q.root_midi, q.mode >>

\* C7: a question made after a previous one repeats its (interval, root,
\* mode) only if neither root + 1 nor root - 1 lies in [min_midi, max_midi].
C7_NoImmediateRepeat ==
    op = "next" /\ last_q # None /\ Triple(current_question) = Triple(last_q) =>
        LET mm == settings_range_to_midi(settings.range)
            root == current_question.root_midi
        IN  (root + 1) \notin mm[1]..mm[2] /\ (root - 1) \notin mm[1]..mm[2]

\* the candidate repeated the previous question to the end of the loop and
\* the nudge made it differ
C7_Witness ==
    /\ op = "next" /\ last_q # None /\ nudged
    /\ current_question.interval = last_q.interval
    /\ current_question.mode = last_q.mode
    /\ current_question.root_midi # last_q.root_midi

\* C8: pick_root_in_bounds returns a root in [min, max] and raises nothing;
\* when max - min >= SEMITONES[interval] the second note (root - distance when
\* descending, root + distance otherwise) is in [min, max] too.
C8_RootInBounds ==
    op = "pick_root_in_bounds" =>
        LET d == SEMITONES[args.interval]
            second == IF args.mode = "descending" THEN ret.value - d ELSE ret.value + d
        IN  /\ ret.raised = NoError
            /\ ret.value \in args.min_midi..args.max_midi
            /\ args.max_midi - args.min_midi >= d => second \in args.min_midi..args.max_midi

\* a descending root whose second note is the lowest note of the range
C8_Witness ==
    /\ op = "pick_root_in_bounds" /\ args.mode = "descending"
    /\ args.max_midi - args.min_midi > SEMITONES[args.interval]
    /\ ret.value - SEMITONES[args.interval] = args.min_midi

\* C9: whatever the stored document holds, load_settings and load_stats raise
\* nothing.
C9_LoadNeverRaises ==
    op \in { "load_settings", "load_stats" } => ret.raised = NoError

\* C10: a returned question whose root was not nudged has its root in the
\* root window of its interval, and so both notes in [min_midi, max_midi],
\* whenever that window is not empty.
C10_RootInWindowOfInterval ==
    op = "next" /\ ~nudged =>
        LET q == current_question
            mm == settings_range_to_midi(settings.range)
            w == root_window(mm[1], mm[2], q.interval, q.mode)
        IN  w[1] <= w[2] =>
                /\ q.root_midi \in w[1]..w[2]
                /\ q.pair_midi[1] \in mm[1]..mm[2]
                /\ q.pair_midi[2] \in mm[1]..mm[2]

\* k is a / b rounded to the nearest integer, a tie going to the even one
IsRounded(k, a, b) ==
    /\ 2 * Abs(k * b - a) <= b
    /\ (2 * Abs(k * b - a) = b => k % 2 = 0)

C11_Effect ==
    LET by == args'.by_interval
    IN  /\ \A n \in DOMAIN by :
              (0 <= by[n].correct /\ by[n].correct <= by[n].seen) =>
                  /\ n \in DOMAIN history'
                  /\ LET h == history'[n]
                         len == Min(window, Max(1, by[n].seen))
                         trues == Cardinality({ i \in 1..Len(h) : h[i] })
                     IN  /\ Len(h) = len
                         /\ IF by[n].seen = 0 THEN trues = 0
                            ELSE IsRounded(trues, by[n].correct * len, by[n].seen)
                         /\ \A i, j \in 1..Len(h) : (i < j /\ h[j]) => h[i]
        /\ DOMAIN history' = DOMAIN history \cup DOMAIN by
        /\ \A n \in DOMAIN history \ DOMAIN by : history'[n] = history[n]
        /\ recent_misses' = recent_misses

\* C11: seed_from_stats(stats) gives every interval of stats.by_interval with
\* 0 <= correct <= seen a history of length min(window, max(1, seen)) holding
\* round(correct / seen * length) trues (none when seen = 0), all trues before
\* all falses, whatever the history held before; the history of an interval
\* absent from stats.by_interval stays as it was (no entry stays no entry),
\* and recent_misses stays.
C11_SeedFromStatsShape == [][op' = "seed" => C11_Effect]_vars

\* a seeding after updates: the tie 1/4 * 2 rounds to no true at all and
\* replaces what the updates left; "m3", updated but not seeded, keeps its
\* history
C11_Witness ==
    /\ op = "seed" /\ args.calls >= 3
    /\ args.by_interval = [ n \in { "m2" } |-> [ seen |-> 4, correct |-> 1 ] ]
    /\ history["m2"] = << FALSE, FALSE >>
    /\ InSeq("m2", recent_misses)
    /\ "m3" \in DOMAIN history /\ history["m3"] = << TRUE >>

\* the last n entries of s
LastN(s, n) == SubSeq(s, Len(s) - n + 1, Len(s))

C12_Windowed ==
    /\ \A n \in DOMAIN history :
          /\ Len(history[n]) <= window
          /\ n \in DOMAIN args.log
          /\ history[n] = LastN(args.log[n], Min(window, Len(args.log[n])))
    /\ Len(recent_misses) <= 3
    /\ recent_misses = LastN(args.missed, Min(3, Len(args.missed)))

\* C12: after any sequence of seed_from_stats and update calls every history
\* is at most window long and holds the most recent min(window, n) of the n
\* outcomes recorded for its interval, in arrival order; recent_misses is at
\* most 3 long and holds the names of the last min(3, m) of the m incorrect
\* answers, in order; an update with a correct answer leaves recent_misses
\* as it was.
C12_HistoryAndMissesWindowed ==
    /\ []C12_Windowed
    /\ [][(op' = "update" /\ args'.correct) => recent_misses' = recent_misses]_vars

\* four incorrect answers after a seeding: the first miss has left
\* recent_misses and the seeded outcomes have left the history of "m2"
C12_Witness ==
    /\ op = "update" /\ args.seeds = 1
    /\ Len(args.missed) = 4 /\ args.missed[1] = "m3"
    /\ recent_misses = << "m2", "m2", "m2" >>
    /\ Len(args.log["m2"]) = 5 /\ args.log["m2"][1]
    /\ history["m2"] = << FALSE, FALSE >>

C13_Ordered ==
    \A n \in DOMAIN stats.by_interval :
        0 <= stats.by_interval[n].correct
        /\ stats.by_interval[n].correct <= stats.by_interval[n].seen

C13_Monotone ==
    \A n \in DOMAIN stats.by_interval :
        /\ n \in DOMAIN stats'.by_interval
        /\ stats'.by_interval[n].seen >= stats.by_interval[n].seen
        /\ stats'.by_interval[n].correct >= stats.by_interval[n].correct

\* C13: in a session that starts from Stats with 0 <= correct <= seen for every
\* interval, every interval of stats.by_interval has 0 <= correct <= seen after
\* any number of scored answers, and no step lowers a counter or drops an
\* interval.
C13_CountersOrderedAndMonotone == []C13_Ordered /\ [][C13_Monotone]_vars

\* three answers on "m2", one of them right, next to an interval that was
\* never asked again
C13_Witness ==
    /\ op = "answer"
    /\ \E n \in DOMAIN stats.by_interval :
          stats.by_interval[n].seen = MaxAnswers /\ stats.by_interval[n].correct = 1

\* C14 as stated: in every state of a session every enabled interval of the
\* current Settings has an entry in AdaptiveState.history.
C14_EnabledHaveHistory ==
    \A i \in 1..Len(settings.intervals) : settings.intervals[i] \in DOMAIN history

\* C15: after the seeding of the session start, a step that is not a scored
\* answer (a question generated, with its reads of weights and accuracy for
\* intervals without a history entry, the settings changed, the session
\* ended) leaves stats.by_interval, stats.confusion, every history and
\* recent_misses as they were, and the stored document still loads the same
\* Stats.
C15_OnlyScoreAnswerWrites ==
    [][op' # "answer" =>
          /\ UNCHANGED << stats, history, recent_misses >>
          /\ load_stats(doc') = load_stats(doc)]_vars

\* a question generated after a miss while an enabled interval has no
\* history entry
C15_Witness ==
    /\ op = "next"
    /\ recent_misses # << >>
    /\ \E i \in 1..Len(settings.intervals) : settings.intervals[i] \notin DOMAIN history
====
